---- MODULE Spec2Model ----
(***************************************************************************)
(* The generate / execute / diagnose / retry loop of src/sample.py:        *)
(* generate_code_from_prompt (the translator call and the normalization    *)
(* of its answer), run_automation (session, execution, screenshot, retry   *)
(* by recursion, teardown) and main.                                       *)
(*                                                                         *)
(* Text is a sequence of tokens.  A token is either one character or a     *)
(* literal the code searches for as a whole; Width gives the number of     *)
(* characters a token stands for, so len() is computed in characters.      *)
(*   "H"    async def run(page):        "NL"  newline      "SP"  space     *)
(*   "BT"   one backtick                "PY"  python                       *)
(*   "PASS" pass                        "G"   await page.goto("u")         *)
(*   "INP"  fill("input[name            "TXT" fill("textarea[name          *)
(* The operator's answers at a y/n prompt are made of "y", "Y", "n", "SP". *)
(*                                                                         *)
(* Every call into the translator, the browser or input() either returns   *)
(* or raises; a step named x_raises is the raising outcome of step x.      *)
(***************************************************************************)
EXTENDS Integers, Sequences, FiniteSets, TLC

VARIABLES
    mpc,         \* main(): position of the top-level flow
    user_prompt, \* main(): the task description read at line 80
    response,    \* generate_code_from_prompt: response.text, before lines 35-42
    mcode,       \* main(): the local `code`
    stack,       \* the run_automation invocations in call order, innermost last
    requests,    \* the prompts sent to the translator, in order
    stage,       \* the stage of the loop entered last
    reply,       \* the operator's last answer to a y/n prompt
    trail,       \* translate / acquire / execute steps since that answer
    retries,     \* number of accepted retries
    executed,    \* the routines handed to exec(), in order
    reported,    \* TRUE once main printed the empty-generation warning
    raw,         \* normalizer study: a translator answer
    out,         \* normalizer study: generate_code_from_prompt's result for raw
    out2,        \* normalizer study: the result of normalizing out again
    npc          \* normalizer study: position

vars == <<mpc, user_prompt, response, mcode, stack, requests, stage, reply, trail,
          retries, executed, reported, raw, out, out2, npc>>

progVars == <<mpc, user_prompt, response, mcode, stack, requests, stage, reply,
              trail, retries, executed, reported>>

normVars == <<raw, out, out2, npc>>

-----------------------------------------------------------------------------
(* Bounds *)

\* longest translator answer, in tokens, of the normalizer study
MaxLen == 4

\* deepest nesting of run_automation the model explores
MaxDepth == 3

-----------------------------------------------------------------------------
(* Text *)

Token == {"H", "NL", "SP", "BT", "PY", "PASS", "G", "INP"}

Width(t) ==
    CASE t = "H"    -> 20
      [] t = "NL"   -> 1
      [] t = "SP"   -> 1
      [] t = "BT"   -> 1
      [] t = "PY"   -> 6
      [] t = "PASS" -> 4
      [] t = "G"    -> 20
      [] t = "INP"  -> 16
      [] t = "TXT"  -> 19

RECURSIVE len(_)
len(s) == IF s = <<>> THEN 0 ELSE Width(Head(s)) + len(Tail(s))

IsSpace(t) == t \in {"SP", "NL"}

RECURSIVE lstrip(_)
lstrip(s) == IF s # <<>> /\ IsSpace(Head(s)) THEN lstrip(Tail(s)) ELSE s

RECURSIVE rstrip(_)
rstrip(s) ==
    IF s # <<>> /\ IsSpace(s[Len(s)]) THEN rstrip(SubSeq(s, 1, Len(s) - 1)) ELSE s

\* str.strip()
strip(s) == rstrip(lstrip(s))

Fence(s) == Len(s) >= 3 /\ s[1] = "BT" /\ s[2] = "BT" /\ s[3] = "BT"

\* re.sub(r"```(?:python)?", "", code): leftmost, non-overlapping matches
RECURSIVE re_sub_fence(_)
re_sub_fence(s) ==
    IF s = <<>> THEN <<>>
    ELSE IF Fence(s)
         THEN IF Len(s) >= 4 /\ s[4] = "PY"
              THEN re_sub_fence(SubSeq(s, 5, Len(s)))
              ELSE re_sub_fence(SubSeq(s, 4, Len(s)))
         ELSE <<Head(s)>> \o re_sub_fence(Tail(s))

\* code.replace("```", "")
RECURSIVE replace_fence(_)
replace_fence(s) ==
    IF s = <<>> THEN <<>>
    ELSE IF Fence(s) THEN replace_fence(SubSeq(s, 4, Len(s)))
         ELSE <<Head(s)>> \o replace_fence(Tail(s))

\* code.startswith("async def run(page):")
startswith_header(s) == s # <<>> /\ Head(s) = "H"

FirstNL(s) ==
    IF \E i \in 1..Len(s) : s[i] = "NL"
    THEN CHOOSE i \in 1..Len(s) : s[i] = "NL" /\ \A j \in 1..(i - 1) : s[j] # "NL"
    ELSE 0

\* str.splitlines(): no line for the empty text, none after a final newline
RECURSIVE splitlines(_)
splitlines(s) ==
    IF s = <<>> THEN <<>>
    ELSE IF FirstNL(s) = 0 THEN <<s>>
         ELSE <<SubSeq(s, 1, FirstNL(s) - 1)>>
              \o splitlines(SubSeq(s, FirstNL(s) + 1, Len(s)))

\* "\n".join(lines)
RECURSIVE join_nl(_)
join_nl(lines) ==
    IF lines = <<>> THEN <<>>
    ELSE IF Len(lines) = 1 THEN lines[1]
         ELSE lines[1] \o <<"NL">> \o join_nl(Tail(lines))

\* "    " + line
indent(line) == <<"SP", "SP", "SP", "SP">> \o line

\* lines 35-37: the answer with surrounding whitespace and fences removed
clean(text) == strip(replace_fence(re_sub_fence(strip(text))))

\* wrap with the indentation put before the text, not before each line
wrap_indent_once(code) == <<"H", "NL">> \o indent(code)

\* line 40: the synthesized entry point around every line of code
wrap(code) ==
    <<"H", "NL">> \o join_nl([i \in 1..Len(splitlines(code)) |-> indent(splitlines(code)[i])])

\* lines 35-42 of generate_code_from_prompt, applied to response.text
generate_code_from_prompt(text) ==
    IF startswith_header(clean(text)) THEN clean(text) ELSE wrap(clean(text))

\* line 82: code.replace('fill("input[name', 'fill("textarea[name')
replace_input(code) ==
    [i \in 1..Len(code) |-> IF code[i] = "INP" THEN "TXT" ELSE code[i]]

\* "pass" in code
contains_pass(code) == \E i \in 1..Len(code) : code[i] = "PASS"

\* line 84
MinLength == 30

degenerate(code) == contains_pass(code) \/ len(code) < MinLength

-----------------------------------------------------------------------------
(* The program: inputs *)

NormIdle == raw = <<>> /\ out = <<>> /\ out2 = <<>> /\ npc = "off"

NoReply == [prompt |-> "none", text |-> <<>>]

\* what the operator may type as the task (line 80)
Tasks == {<<"task A">>, <<"task B">>}

\* what the translator may answer (response.text, line 35)
Answers ==
    { <<"BT", "BT", "BT", "PY", "NL", "INP", "NL", "BT", "BT", "BT">>,
      <<"H", "NL", "SP", "SP", "SP", "SP", "G">>,
      <<"PASS">>,
      <<>> }

\* what the operator may type at a y/n prompt (lines 68, 91)
Replies == { <<"y">>, <<"SP", "Y", "SP">>, <<"n">> }

\* str.lower()
lower(s) == [i \in 1..Len(s) |-> IF s[i] = "Y" THEN "y" ELSE s[i]]

\* affirmative with any non-blank answer taken for a yes
affirmative_nonblank(text) == strip(text) # <<>>

\* input(...).strip().lower() == "y"
affirmative(text) == lower(strip(text)) = <<"y">>

\* line 64
ScreenshotPath == "error_screenshot.png"

\* lines 29-33: the prompt the translator receives
build_prompt(prompt, screenshot_path) ==
    IF screenshot_path # "None"
    THEN prompt \o <<"error screenshot:", screenshot_path, "Fix the code.">>
    ELSE prompt

\* exec(code, exec_env) raises SyntaxError on an entry point without a body
malformed(code) == startswith_header(code) /\ strip(Tail(code)) = <<>>

-----------------------------------------------------------------------------
(* The program: run_automation invocations *)

\* a run_automation invocation as it is entered (line 45)
NewFrame(code, prompt) ==
    [ pc       |-> "launch",  \* position in run_automation
      code     |-> code,      \* parameter code
      prompt   |-> prompt,    \* parameter prompt
      browser  |-> "none",    \* none / open / closed
      context  |-> FALSE,     \* browser.new_context() returned
      page     |-> FALSE,     \* context.new_page() returned
      ran      |-> FALSE,     \* exec(code) was reached
      raised   |-> "none",    \* what lines 59-60 raised
      evidence |-> "None",    \* screenshot_path
      shot     |-> "none",    \* page.screenshot: none / saved / raised
      asked    |-> FALSE,     \* the retry prompt was shown
      enter    |-> 0,         \* 'Press Enter' prompts shown
      closes   |-> 0,         \* browser.close() calls
      pending  |-> "none" ]   \* the exception leaving the invocation

\* the invocation that is running: its callers wait at line 73
Active == {i \in DOMAIN stack : stack[i].pc \notin {"nested", "gone"}}

cur == CHOOSE i \in Active : TRUE

At(pc) == Active # {} /\ stack[cur].pc = pc

\* the running invocation with some of its fields changed
Frame(changes) == [stack EXCEPT ![cur] = changes @@ stack[cur]]

Init ==
    /\ mpc = "start" /\ user_prompt = <<>> /\ response = <<>> /\ mcode = <<>>
    /\ stack = <<>> /\ requests = <<>> /\ stage = "Start" /\ reply = NoReply
    /\ trail = <<>> /\ retries = 0 /\ executed = <<>> /\ reported = FALSE
    /\ NormIdle

-----------------------------------------------------------------------------
(* main *)

\* line 80: the task description is read
main_input ==
    /\ mpc = "start"
    /\ \E t \in Tasks : user_prompt' = t
    /\ mpc' = "translate"
    /\ UNCHANGED <<response, mcode, stack, requests, stage, reply, trail, retries,
                   executed, reported, normVars>>

\* line 80: input() raises (end of input, interrupt)
main_input_raises ==
    /\ mpc = "start"
    /\ mpc' = "crashed"
    /\ UNCHANGED <<user_prompt, response, mcode, stack, requests, stage, reply,
                   trail, retries, executed, reported, normVars>>

\* line 81, lines 29-33: the first request; the translator answers
main_translate ==
    /\ mpc = "translate"
    /\ requests' = Append(requests, build_prompt(user_prompt, "None"))
    /\ stage' = "Translating"
    /\ trail' = Append(trail, "translate")
    /\ \E a \in Answers : response' = a
    /\ mpc' = "normalize"
    /\ UNCHANGED <<user_prompt, mcode, stack, reply, retries, executed, reported,
                   normVars>>

\* line 81, line 33: the translator raises; nothing in main catches it
main_translate_raises ==
    /\ mpc = "translate"
    /\ requests' = Append(requests, build_prompt(user_prompt, "None"))
    /\ stage' = "Translating"
    /\ trail' = Append(trail, "translate")
    /\ mpc' = "crashed"
    /\ UNCHANGED <<user_prompt, response, mcode, stack, reply, retries, executed,
                   reported, normVars>>

\* lines 35-42, then lines 82-89 of main: normalize, replace, refuse or print
main_normalize ==
    /\ mpc = "normalize"
    /\ stage' = "Normalizing"
    /\ mcode' = replace_input(generate_code_from_prompt(response))
    /\ IF degenerate(mcode')
       THEN reported' = TRUE /\ mpc' = "done"
       ELSE reported' = reported /\ mpc' = "confirm"
    /\ UNCHANGED <<user_prompt, response, stack, requests, reply, trail, retries,
                   executed, normVars>>

\* lines 91-94: run the routine only on "y"
main_confirm ==
    /\ mpc = "confirm"
    /\ \E r \in Replies :
         /\ reply' = [prompt |-> "run", text |-> r]
         /\ IF affirmative(r)
            THEN stack' = <<NewFrame(mcode, user_prompt)>> /\ mpc' = "running"
            ELSE stack' = stack /\ mpc' = "done"
    /\ trail' = <<>>
    /\ UNCHANGED <<user_prompt, response, mcode, requests, stage, retries, executed,
                   reported, normVars>>

\* line 91: input() raises
main_confirm_raises ==
    /\ mpc = "confirm"
    /\ mpc' = "crashed"
    /\ UNCHANGED <<user_prompt, response, mcode, stack, requests, stage, reply,
                   trail, retries, executed, reported, normVars>>

-----------------------------------------------------------------------------
(* run_automation *)

\* what a step of run_automation leaves alone besides stack
RunFrame == <<mpc, user_prompt, response, mcode, requests, stage, reply, trail,
              retries, executed, reported, normVars>>

\* launch with the routine started as soon as the browser is there
launch_then_routine ==
    /\ At("launch")
    /\ stack' = Frame([pc |-> "routine", browser |-> "open"])
    /\ trail' = Append(trail, "acquire")
    /\ UNCHANGED <<mpc, user_prompt, response, mcode, requests, stage, reply, retries,
                   executed, reported, normVars>>

\* line 47: p.chromium.launch returns
launch ==
    /\ At("launch")
    /\ stack' = Frame([pc |-> "context", browser |-> "open"])
    /\ trail' = Append(trail, "acquire")
    /\ UNCHANGED <<mpc, user_prompt, response, mcode, requests, stage, reply, retries,
                   executed, reported, normVars>>

\* line 47: the launch raises, before the try statement
launch_raises ==
    /\ At("launch")
    /\ stack' = Frame([pc |-> "exit", pending |-> "acquire"])
    /\ trail' = Append(trail, "acquire")
    /\ UNCHANGED <<mpc, user_prompt, response, mcode, requests, stage, reply, retries,
                   executed, reported, normVars>>

\* line 48: browser.new_context returns
new_context ==
    /\ At("context")
    /\ stack' = Frame([pc |-> "page", context |-> TRUE])
    /\ UNCHANGED RunFrame

\* line 48: new_context raises, before the try statement
new_context_raises ==
    /\ At("context")
    /\ stack' = Frame([pc |-> "exit", pending |-> "acquire"])
    /\ UNCHANGED RunFrame

\* line 49: context.new_page returns
new_page ==
    /\ At("page")
    /\ stack' = Frame([pc |-> "routine", page |-> TRUE])
    /\ UNCHANGED RunFrame

\* line 49: new_page raises, before the try statement
new_page_raises ==
    /\ At("page")
    /\ stack' = Frame([pc |-> "exit", pending |-> "acquire"])
    /\ UNCHANGED RunFrame

\* lines 57-60: the routine is loaded and its entry point called
start_routine ==
    /\ At("routine")
    /\ stack' = Frame([pc |-> "running", ran |-> TRUE])
    /\ stage' = "Executing"
    /\ executed' = Append(executed, stack[cur].code)
    /\ trail' = Append(trail, "execute")
    /\ UNCHANGED <<mpc, user_prompt, response, mcode, requests, reply, retries,
                   reported, normVars>>

\* routine_returns with the screenshot taken whatever the outcome
routine_returns_then_screenshot ==
    /\ At("running")
    /\ ~malformed(stack[cur].code)
    /\ stack' = Frame([pc |-> "screenshot"])
    /\ stage' = "Succeeded"
    /\ UNCHANGED <<mpc, user_prompt, response, mcode, requests, reply, trail, retries,
                   executed, reported, normVars>>

\* routine_returns with the retry prompt placed after the try statement
routine_returns_then_prompt ==
    /\ At("running")
    /\ ~malformed(stack[cur].code)
    /\ stack' = Frame([pc |-> "retry_prompt"])
    /\ stage' = "Succeeded"
    /\ UNCHANGED <<mpc, user_prompt, response, mcode, requests, reply, trail, retries,
                   executed, reported, normVars>>

\* line 61: the routine returned
routine_returns ==
    /\ At("running")
    /\ ~malformed(stack[cur].code)
    /\ stack' = Frame([pc |-> "finally"])
    /\ stage' = "Succeeded"
    /\ UNCHANGED <<mpc, user_prompt, response, mcode, requests, reply, trail, retries,
                   executed, reported, normVars>>

\* lines 62-64: `except Exception` takes what is an Exception; anything else
\* (KeyboardInterrupt, SystemExit, CancelledError) goes to the finally clause
routine_raises ==
    /\ At("running")
    /\ \E kind \in {"Exception", "BaseException"} :
         /\ malformed(stack[cur].code) => kind = "Exception"
         /\ IF kind = "Exception"
            THEN /\ stack' = Frame([pc |-> "screenshot", raised |-> kind,
                                       evidence |-> ScreenshotPath])
                 /\ stage' = "Failed"
            ELSE /\ stack' = Frame([pc |-> "finally", raised |-> kind,
                                       pending |-> "routine"])
                 /\ stage' = stage
    /\ UNCHANGED <<mpc, user_prompt, response, mcode, requests, reply, trail, retries,
                   executed, reported, normVars>>

\* lines 65-68: the screenshot is saved and the retry prompt shown
screenshot ==
    /\ At("screenshot")
    /\ stack' = Frame([pc |-> "retry_prompt", shot |-> "saved", asked |-> TRUE])
    /\ stage' = "AwaitingRetryDecision"
    /\ UNCHANGED <<mpc, user_prompt, response, mcode, requests, reply, trail, retries,
                   executed, reported, normVars>>

\* line 65: page.screenshot raises inside the except clause
screenshot_raises ==
    /\ At("screenshot")
    /\ stack' = Frame([pc |-> "finally", shot |-> "raised", pending |-> "screenshot"])
    /\ UNCHANGED RunFrame

\* retry_reply with the question asked again after any answer but yes
retry_reply_asks_again ==
    /\ At("retry_prompt")
    /\ \E r \in Replies :
         /\ affirmative(r) => Len(stack) < MaxDepth
         /\ reply' = [prompt |-> "retry", text |-> r]
         /\ IF affirmative(r)
            THEN /\ stack' = Frame([pc |-> "translate"])
                 /\ retries' = retries + 1
                 /\ stage' = stage
            ELSE /\ stack' = stack
                 /\ retries' = retries
                 /\ stage' = "Aborted"
    /\ trail' = <<>>
    /\ UNCHANGED <<mpc, user_prompt, response, mcode, requests, executed, reported,
                   normVars>>

\* lines 68-69: the operator answers the retry prompt
retry_reply ==
    /\ At("retry_prompt")
    /\ \E r \in Replies :
         /\ affirmative(r) => Len(stack) < MaxDepth
         /\ reply' = [prompt |-> "retry", text |-> r]
         /\ IF affirmative(r)
            THEN /\ stack' = Frame([pc |-> "translate"])
                 /\ retries' = retries + 1
                 /\ stage' = stage
            ELSE /\ stack' = Frame([pc |-> "finally"])
                 /\ retries' = retries
                 /\ stage' = "Aborted"
    /\ trail' = <<>>
    /\ UNCHANGED <<mpc, user_prompt, response, mcode, requests, executed, reported,
                   normVars>>

\* line 68: input() raises inside the except clause
retry_reply_raises ==
    /\ At("retry_prompt")
    /\ stack' = Frame([pc |-> "finally", pending |-> "prompt"])
    /\ UNCHANGED RunFrame

\* line 70, lines 29-33: the retry request; the translator answers
retry_translate ==
    /\ At("translate")
    /\ requests' = Append(requests, build_prompt(stack[cur].prompt, stack[cur].evidence))
    /\ stage' = "Translating"
    /\ trail' = Append(trail, "translate")
    /\ \E a \in Answers : response' = a
    /\ stack' = Frame([pc |-> "normalize"])
    /\ UNCHANGED <<mpc, user_prompt, mcode, reply, retries, executed, reported,
                   normVars>>

\* line 70, line 33: the translator raises inside the except clause
retry_translate_raises ==
    /\ At("translate")
    /\ requests' = Append(requests, build_prompt(stack[cur].prompt, stack[cur].evidence))
    /\ stage' = "Translating"
    /\ trail' = Append(trail, "translate")
    /\ stack' = Frame([pc |-> "finally", pending |-> "translator"])
    /\ UNCHANGED <<mpc, user_prompt, response, mcode, reply, retries, executed,
                   reported, normVars>>

\* retry_normalize with the caller's session closed before the nested call
retry_normalize_after_close ==
    /\ At("normalize")
    /\ stage' = "Normalizing"
    /\ stack' = Append(Frame([pc |-> "nested", browser |-> "closed",
                              closes |-> stack[cur].closes + 1]),
                       NewFrame(generate_code_from_prompt(response), stack[cur].prompt))
    /\ UNCHANGED <<mpc, user_prompt, response, mcode, requests, reply, trail, retries,
                   executed, reported, normVars>>

\* retry_normalize with the prompt as sent to the translator handed on
retry_normalize_hands_on_request ==
    /\ At("normalize")
    /\ stage' = "Normalizing"
    /\ stack' = Append(Frame([pc |-> "nested"]),
                       NewFrame(generate_code_from_prompt(response),
                                build_prompt(stack[cur].prompt, stack[cur].evidence)))
    /\ UNCHANGED <<mpc, user_prompt, response, mcode, requests, reply, trail, retries,
                   executed, reported, normVars>>

\* lines 35-42, then lines 71-73: normalize, print, call run_automation again
retry_normalize ==
    /\ At("normalize")
    /\ stage' = "Normalizing"
    /\ stack' = Append(Frame([pc |-> "nested"]),
                       NewFrame(generate_code_from_prompt(response), stack[cur].prompt))
    /\ UNCHANGED <<mpc, user_prompt, response, mcode, requests, reply, trail, retries,
                   executed, reported, normVars>>

\* line 75: the operator presses Enter
press_enter ==
    /\ At("finally")
    /\ stack' = Frame([pc |-> "close", enter |-> stack[cur].enter + 1])
    /\ UNCHANGED RunFrame

\* line 75: input() raises inside the finally clause; line 76 is skipped
press_enter_raises ==
    /\ At("finally")
    /\ stack' = Frame([pc |-> "exit", enter |-> stack[cur].enter + 1,
                          pending |-> "prompt"])
    /\ UNCHANGED RunFrame

\* line 76: browser.close returns
close ==
    /\ At("close")
    /\ stack' = Frame([pc |-> "exit", closes |-> stack[cur].closes + 1,
                          browser |-> "closed"])
    /\ UNCHANGED RunFrame

\* line 46 (the end of the async with block): the invocation ends; its caller
\* goes on after line 73 or after line 92, with the exception if there is one
exit ==
    /\ At("exit")
    /\ IF cur > 1
       THEN /\ stack' = [stack EXCEPT ![cur].pc = "gone",
                                      ![cur - 1].pc = "finally",
                                      ![cur - 1].pending = stack[cur].pending]
            /\ mpc' = mpc
       ELSE /\ stack' = Frame([pc |-> "gone"])
            /\ mpc' = IF stack[cur].pending = "none" THEN "done" ELSE "crashed"
    /\ UNCHANGED <<user_prompt, response, mcode, requests, stage, reply, trail,
                   retries, executed, reported, normVars>>

run_automation ==
    \/ launch \/ launch_raises
    \/ new_context \/ new_context_raises
    \/ new_page \/ new_page_raises
    \/ start_routine \/ routine_returns \/ routine_raises
    \/ screenshot \/ screenshot_raises
    \/ retry_reply \/ retry_reply_raises
    \/ retry_translate \/ retry_translate_raises \/ retry_normalize
    \/ press_enter \/ press_enter_raises
    \/ close
    \/ exit

main ==
    \/ main_input \/ main_input_raises
    \/ main_translate \/ main_translate_raises
    \/ main_normalize
    \/ main_confirm \/ main_confirm_raises

Next == main \/ run_automation

Spec == Init /\ [][Next]_vars

-----------------------------------------------------------------------------
(* Properties of the session lifecycle (checked under Spec) *)

Frames == DOMAIN stack

Over(i) == stack[i].pc = "gone"

RunOver == mpc \in {"done", "crashed"}

\* C1: every invocation that acquired its session (browser, context and page)
\* calls browser.close exactly once before it exits, on every exit path, and no
\* session is open once the top-level run has ended.
C1_ClosedExactlyOnce ==
    \A i \in Frames :
        /\ stack[i].closes <= 1
        /\ (Over(i) /\ stack[i].page) => stack[i].closes = 1
        /\ (RunOver /\ stack[i].page) => stack[i].browser = "closed"

\* C2: acquisition is launch, then context, then page, and an invocation that
\* ends because context or page creation failed has closed the browser it
\* launched.
C2_PartialAcquisitionReleased ==
    \A i \in Frames :
        /\ stack[i].context => stack[i].browser # "none"
        /\ stack[i].page => stack[i].context
        /\ (Over(i) /\ stack[i].browser # "none" /\ ~stack[i].page)
               => stack[i].browser = "closed"

\* C3: a routine that raised an Exception (syntax error, missing entry point,
\* selector, timeout, browser error) was turned into a Failure: the evidence
\* path is set, no exception of that execution is leaving the invocation, and
\* the failure reaches the retry decision.
C3_FaultBecomesFailure ==
    \A i \in Frames :
        stack[i].raised = "Exception" =>
            /\ stack[i].evidence # "None"
            /\ stack[i].pending \notin {"routine", "screenshot"}
            /\ Over(i) => stack[i].asked

\* C4: a screenshot capture that raised does not escalate: the screenshot
\* error is not propagating and the operator is still asked about a retry.
C4_ScreenshotFaultContained ==
    \A i \in Frames :
        stack[i].shot = "raised" =>
            /\ stack[i].pending # "screenshot"
            /\ Over(i) => stack[i].asked

\* C5: there is a ceiling N >= 1, below the nesting the model explores, that
\* the number of accepted retries never exceeds.
C5_RetriesBounded == \E N \in 1..(MaxDepth - 2) : retries <= N

body(code) == IF startswith_header(code) THEN Tail(code) ELSE code

\* a routine whose statements are all `pass`
only_noop(code) ==
    /\ \E i \in 1..Len(splitlines(body(code))) : strip(splitlines(body(code))[i]) = <<"PASS">>
    /\ \A i \in 1..Len(splitlines(body(code))) :
           strip(splitlines(body(code))[i]) \in {<<>>, <<"PASS">>}

\* C6: a routine that is shorter than the minimum length or only a no-op,
\* whether the first or one made for a retry, is reported as an empty
\* generation, gets no session and is never executed.
C6_DegenerateNeverRun ==
    \A i \in Frames :
        (len(stack[i].code) < MinLength \/ only_noop(stack[i].code)) =>
            /\ reported
            /\ stack[i].browser = "none"
            /\ ~stack[i].ran

IsPrefix(s, t) == Len(s) <= Len(t) /\ s = SubSeq(t, 1, Len(s))

\* the answer is a single y or Y, with blanks around it at most
SaidYes(text) ==
    \E i \in 1..Len(text) :
        /\ text[i] \in {"y", "Y"}
        /\ \A j \in 1..Len(text) : j # i => text[j] = "SP"

\* C7: what follows an answer to a y/n prompt: after a 'y' to the run prompt a
\* session and one execution, after a 'y' to the retry prompt one translation,
\* a session and one execution, after any other answer nothing; before the
\* first answer only the first translation.
C7_OnlyAfterYes ==
    /\ reply.prompt = "none" => IsPrefix(trail, <<"translate">>)
    /\ reply.prompt = "run" =>
           IF SaidYes(reply.text) THEN IsPrefix(trail, <<"acquire", "execute">>)
                                  ELSE trail = <<>>
    /\ reply.prompt = "retry" =>
           IF SaidYes(reply.text)
           THEN IsPrefix(trail, <<"translate", "acquire", "execute">>)
           ELSE trail = <<>>

\* a retry was accepted with " Y " and its routine was executed
C7_Witness ==
    /\ reply = [prompt |-> "retry", text |-> <<"SP", "Y", "SP">>]
    /\ trail = <<"translate", "acquire", "execute">>

StageEdges ==
    { <<"Start", "Translating">>, <<"Translating", "Normalizing">>,
      <<"Normalizing", "Executing">>, <<"Executing", "Succeeded">>,
      <<"Executing", "Failed">>, <<"Failed", "AwaitingRetryDecision">>,
      <<"AwaitingRetryDecision", "Aborted">>,
      <<"AwaitingRetryDecision", "Translating">> }

\* C10: the stage changes only along an edge of the loop's state machine, a
\* request to the translator is the step into Translating and an execution the
\* step from Normalizing into Executing, and once the stage is Succeeded or
\* Aborted there is no further stage, request or execution.
C10_StageOrder ==
    [][ /\ stage' # stage => <<stage, stage'>> \in StageEdges
        /\ requests' # requests =>
               stage' = "Translating" /\ stage \in {"Start", "AwaitingRetryDecision"}
        /\ executed' # executed => stage' = "Executing" /\ stage = "Normalizing"
        /\ stage \in {"Succeeded", "Aborted"} =>
               stage' = stage /\ requests' = requests /\ executed' = executed
      ]_vars

\* a failure, an accepted retry and a success of the nested run, with the
\* enclosing invocation back in its finally clause
C10_Witness ==
    /\ stage = "Succeeded"
    /\ retries = 1
    /\ Len(stack) = 2 /\ Over(2) /\ stack[1].pc = "finally"

-----------------------------------------------------------------------------
(* Properties of the requests and of the teardown (checked under Spec) *)

\* what a retry request adds to the task description (line 30)
EvidenceNote == <<"error screenshot:", "error_screenshot.png", "Fix the code.">>

\* C11: the task description is the same in every invocation; the first
\* request is the task description alone and every later request is the task
\* description followed by one evidence note, the one of the failure that led
\* to it, however many retries came before.
C11_TaskNeverChanged ==
    /\ \A i \in Frames : stack[i].prompt = user_prompt
    /\ \A k \in 1..Len(requests) :
           requests[k] = IF k = 1 THEN user_prompt ELSE user_prompt \o EvidenceNote

\* the second retry request was sent
C11_Witness ==
    /\ Len(requests) = 3
    /\ Len(stack) = 2 /\ stack[2].evidence = "error_screenshot.png"

\* the translator raised while a retry was being requested (line 70)
RetryTranslationFailed ==
    /\ stack # <<>>
    /\ stage = "Translating"
    /\ stack[Len(stack)].pc # "normalize"

\* C12: once the translator has raised during a retry request, the run ends
\* with the fault at the top level and with every session closed.
C12_FaultAfterCleanup ==
    (RetryTranslationFailed /\ RunOver) =>
        /\ mpc = "crashed"
        /\ \A i \in Frames : stack[i].browser = "closed" /\ stack[i].closes = 1

Executing(i) == stack[i].pc = "running"

\* C13: at most one routine is executing; it is the routine of the innermost
\* invocation, whose own session (browser, context, page) is complete and
\* open; every enclosing invocation waits at line 73 with its own routine
\* already ended in a failure, so no session has two routines at work.
C13_OneRoutineOneSession ==
    \A i \in Frames :
        Executing(i) =>
            /\ i = Len(stack)
            /\ stack[i].browser = "open" /\ stack[i].context /\ stack[i].page
            /\ \A j \in Frames \ {i} :
                   /\ ~Executing(j)
                   /\ stack[j].pc = "nested"
                   /\ stack[j].raised = "Exception"
                   /\ stack[j].browser = "open"

\* the routine of a second retry is executing while two sessions wait
C13_Witness ==
    /\ Len(stack) = 3
    /\ Executing(3)
    /\ stack[1].pc = "nested" /\ stack[2].pc = "nested"

\* the routine of invocation i returned (line 61)
Succeeded(i) == stack[i].ran /\ stack[i].raised = "none" /\ ~Executing(i)

\* C14: after a routine returned, its invocation has made no screenshot, has
\* not asked about a retry and has sent no request and made no nested call:
\* it is at the close prompt, at the close, or leaving.
C14_SuccessGoesToTeardown ==
    \A i \in Frames :
        Succeeded(i) =>
            /\ stack[i].pc \in {"finally", "close", "exit", "gone"}
            /\ stack[i].shot = "none" /\ stack[i].evidence = "None"
            /\ ~stack[i].asked
            /\ Len(stack) = i /\ Len(requests) = i /\ Len(executed) = i

\* a retry's routine returned and its session was closed
C14_Witness ==
    /\ Len(stack) = 2 /\ Succeeded(2)
    /\ stack[2].pc = "exit" /\ stack[2].closes = 1

\* the invocations that have not returned
Depth == Cardinality({i \in Frames : ~Over(i)})

OpenSessions == Cardinality({i \in Frames : stack[i].browser = "open"})

\* the running invocation is between two steps that change the count: it is
\* acquiring or releasing its session, or on its way into the nested call
InTransit ==
    Active # {} /\ stack[cur].pc \in {"launch", "context", "page", "translate",
                                       "normalize", "close", "exit"}

\* C15 as stated: at every moment of a run (steps in transit aside) the
\* number of open sessions is the nesting depth, and the nesting depth is one
\* more than the number of retries accepted so far.
C15_OpenEqualsDepthAlways ==
    (mpc = "running" /\ ~InTransit) => OpenSessions = Depth /\ Depth = retries + 1

\* the innermost invocation holds its session and has not decided on a retry
Settled ==
    /\ stack # <<>>
    /\ stack[Len(stack)].pc \in {"routine", "running", "screenshot", "retry_prompt"}

\* C15 as amended: while the innermost invocation holds its session and has
\* not yet decided on a retry, no invocation has returned, every invocation
\* holds an open session (the enclosing ones waiting at line 73), and their
\* number is one more than the accepted retries.
C15_OpenEqualsDepthSettled ==
    Settled =>
        /\ Depth = Len(stack)
        /\ OpenSessions = Depth
        /\ Depth = retries + 1
        /\ \A i \in Frames : stack[i].browser = "open"

\* as many sessions are open as the model allows invocations
C15_Witness ==
    /\ Settled
    /\ OpenSessions = MaxDepth
    /\ retries = MaxDepth - 1

RECURSIVE Sum(_, _)
Sum(f, n) == IF n = 0 THEN 0 ELSE f[n] + Sum(f, n - 1)

KeyPresses == Sum([i \in Frames |-> stack[i].enter], Len(stack))

Closes == Sum([i \in Frames |-> stack[i].closes], Len(stack))

\* an enclosing invocation prompts and closes only after the nested one is over
InnermostFirst ==
    \A i \in Frames : \A j \in Frames :
        (i < j /\ (stack[i].enter > 0 \/ stack[i].closes > 0)) => Over(j)

-----------------------------------------------------------------------------
(* Termination (checked under SpecFair) *)

\* the teardown goes on: a 'Press Enter' prompt that stays open is answered
\* (line 75), browser.close returns (line 76) and the invocation hands control
\* back to its caller; a prompt that raises instead is not ruled out
SpecFair == Spec /\ WF_vars(press_enter) /\ WF_vars(close) /\ WF_vars(exit)

\* a 'Press Enter' prompt raised instead of returning
PromptFailed ==
    \E i \in Frames :
        stack[i].enter = 1 /\ stack[i].closes = 0 /\ stack[i].pc \in {"exit", "gone"}

TornDown ==
    /\ RunOver
    /\ \A i \in Frames : Over(i) /\ stack[i].browser = "closed"

\* C17: once a routine has succeeded or a retry was declined, the run comes
\* to its end with every invocation returned and every session closed, unless
\* a 'Press Enter' prompt fails to be answered.
C17_EventuallyTornDown ==
    (stage \in {"Succeeded", "Aborted"}) ~> (TornDown \/ PromptFailed)

\* a declined second retry, and all three sessions closed at the end
C17_Witness ==
    /\ stage = "Aborted"
    /\ TornDown
    /\ Len(stack) = 3 /\ mpc = "done"

-----------------------------------------------------------------------------
(* The normalizer on its own: every answer of at most MaxLen tokens *)

RECURSIVE TextsUpTo(_)
TextsUpTo(n) ==
    IF n = 0 THEN {<<>>}
    ELSE TextsUpTo(n - 1) \cup {Append(s, t) : s \in TextsUpTo(n - 1), t \in Token}

ProgIdle ==
    /\ mpc = "off" /\ user_prompt = <<>> /\ response = <<>> /\ mcode = <<>>
    /\ stack = <<>> /\ requests = <<>> /\ stage = "Start" /\ reply = NoReply
    /\ trail = <<>> /\ retries = 0 /\ executed = <<>> /\ reported = FALSE

InitNorm ==
    /\ raw \in TextsUpTo(MaxLen)
    /\ out = <<>> /\ out2 = <<>> /\ npc = "raw"
    /\ ProgIdle

Normalize ==
    /\ npc = "raw"
    /\ out' = generate_code_from_prompt(raw)
    /\ npc' = "normalized"
    /\ UNCHANGED <<raw, out2, progVars>>

NormalizeAgain ==
    /\ npc = "normalized"
    /\ out2' = generate_code_from_prompt(out)
    /\ npc' = "renormalized"
    /\ UNCHANGED <<raw, out, progVars>>

NextNorm == Normalize \/ NormalizeAgain

SpecNorm == InitNorm /\ [][NextNorm]_vars

-----------------------------------------------------------------------------
(* Properties of the normalizer (checked under SpecNorm) *)

Count(s, t) == Cardinality({i \in 1..Len(s) : s[i] = t})

Spaces(s, n) == Len(s) >= n /\ \A i \in 1..n : s[i] = "SP"

\* the text with four blanks taken from the start of every line; "?" where a
\* line does not start with four blanks
RECURSIVE Dedent(_, _)
Dedent(s, bol) ==
    IF s = <<>> THEN <<>>
    ELSE IF bol
         THEN IF Spaces(s, 4) THEN Dedent(SubSeq(s, 5, Len(s)), FALSE) ELSE <<"?">>
         ELSE IF Head(s) = "NL" THEN <<"NL">> \o Dedent(Tail(s), TRUE)
              ELSE <<Head(s)>> \o Dedent(Tail(s), FALSE)

\* C8: when the answer declares no entry point, the result is one header line
\* followed by the cleaned answer with every line indented by four blanks: no
\* line is lost, added or moved.
C8_WrapKeepsEveryLine ==
    (npc # "raw" /\ Count(raw, "H") = 0) =>
        /\ Len(out) >= 2 /\ out[1] = "H" /\ out[2] = "NL"
        /\ Count(out, "H") = 1
        /\ Dedent(SubSeq(out, 3, Len(out)), TRUE) = clean(raw)

\* an answer of two lines with blanks around it was wrapped
C8_Witness ==
    /\ npc = "normalized"
    /\ Count(raw, "H") = 0
    /\ Len(splitlines(clean(raw))) = 2
    /\ clean(raw) # raw

\* some line of the text is the entry point declaration
declares_entry_point(s) ==
    \E i \in 1..Len(splitlines(s)) : startswith_header(splitlines(s)[i])

\* C9: an answer that declares the entry point is returned as it is (cleaned),
\* without a second entry point, and normalizing a normalized routine changes
\* nothing.
C9_NormalizeIdempotent ==
    /\ (npc # "raw" /\ declares_entry_point(clean(raw))) => out = clean(raw)
    /\ npc = "renormalized" => out2 = out

====
